---- MODULE Spec2Model ----
(***************************************************************************)
(* HDLC connection state of dlms_cosem/protocol/hdlc/state.py:             *)
(* HdlcConnectionState, its transition table and process_frame.            *)
(***************************************************************************)
EXTENDS Integers, Sequences, FiniteSets, TLC

\* ------------------------------------------------------------------------
\* Sentinel states (state.py 35-53)
\* ------------------------------------------------------------------------
NOT_CONNECTED == "NOT_CONNECTED"
IDLE == "IDLE"
AWAITING_RESPONSE == "AWAITING_RESPONSE"
AWAITING_CONNECTION == "AWAITING_CONNECTION"
SHOULD_SEND_READY_TO_RECEIVE == "SHOULD_SEND_READY_TO_RECEIVE"
AWAITING_DISCONNECT == "AWAITING_DISCONNECT"
CLOSED == "CLOSED"
NEED_DATA == "NEED_DATA"

Sentinels ==
    { NOT_CONNECTED, IDLE, AWAITING_RESPONSE, AWAITING_CONNECTION,
      SHOULD_SEND_READY_TO_RECEIVE, AWAITING_DISCONNECT, CLOSED, NEED_DATA }

\* ------------------------------------------------------------------------
\* Frame classes named by the transition table (state.py 57-71)
\* ------------------------------------------------------------------------
SetNormalResponseModeFrame == "SetNormalResponseModeFrame"
UnNumberedAcknowledgmentFrame == "UnNumberedAcknowledgmentFrame"
InformationFrame == "InformationFrame"
SegmentedInformationRequestFrame == "SegmentedInformationRequestFrame"
SegmentedInformationResponseFrame == "SegmentedInformationResponseFrame"
DisconnectFrame == "DisconnectFrame"
ReceiveReadyFrame == "ReceiveReadyFrame"

FrameTypes ==
    { SetNormalResponseModeFrame, UnNumberedAcknowledgmentFrame,
      InformationFrame, SegmentedInformationRequestFrame,
      SegmentedInformationResponseFrame, DisconnectFrame, ReceiveReadyFrame }

\* Largest sequence number a frame handed to process_frame carries.
MaxFrameSeq == 7

\* The value above which a counter wraps to 0 (state.py 149, 154, 159, 164).
SeqMax == 7

\* A frame object: its class and, read only for InformationFrame, the
\* response flag and the two sequence numbers.
Frame(type, response_frame, ssn, rsn) ==
    [ type |-> type, response_frame |-> response_frame,
      send_sequence_number |-> ssn, receive_sequence_number |-> rsn ]

ControlFrame(type) == Frame(type, FALSE, 0, 0)

Information(response_frame, ssn, rsn) ==
    Frame(InformationFrame, response_frame, ssn, rsn)

Frames ==
    { ControlFrame(t) : t \in FrameTypes \ {InformationFrame} }
    \cup { Information(rf, ssn, rsn) :
             rf \in BOOLEAN, ssn \in 0..MaxFrameSeq, rsn \in 0..MaxFrameSeq }

\* No call of process_frame has been made yet.
NoFrame == Frame("none", FALSE, 0, 0)

\* ------------------------------------------------------------------------
\* HDLC_STATE_TRANSITIONS (state.py 57-71): state -> frame class -> state
\* ------------------------------------------------------------------------
\* Mutant: one more entry, (AWAITING_RESPONSE, ReceiveReadyFrame).
HDLC_STATE_TRANSITIONS_extra ==
    (NOT_CONNECTED :> (SetNormalResponseModeFrame :> AWAITING_CONNECTION))
    @@ (AWAITING_CONNECTION :> (UnNumberedAcknowledgmentFrame :> IDLE))
    @@ (IDLE :> ( (InformationFrame :> AWAITING_RESPONSE)
                  @@ (SegmentedInformationRequestFrame :> AWAITING_RESPONSE)
                  @@ (DisconnectFrame :> AWAITING_DISCONNECT) ))
    @@ (AWAITING_RESPONSE :>
            ( (InformationFrame :> IDLE)
              @@ (ReceiveReadyFrame :> AWAITING_RESPONSE)
              @@ (SegmentedInformationResponseFrame :>
                      SHOULD_SEND_READY_TO_RECEIVE) ))
    @@ (SHOULD_SEND_READY_TO_RECEIVE :>
            (ReceiveReadyFrame :> AWAITING_RESPONSE))
    @@ (AWAITING_DISCONNECT :>
            (UnNumberedAcknowledgmentFrame :> NOT_CONNECTED))

\* Mutant: the acknowledged disconnect ends in CLOSED.
HDLC_STATE_TRANSITIONS_closed ==
    (NOT_CONNECTED :> (SetNormalResponseModeFrame :> AWAITING_CONNECTION))
    @@ (AWAITING_CONNECTION :> (UnNumberedAcknowledgmentFrame :> IDLE))
    @@ (IDLE :> ( (InformationFrame :> AWAITING_RESPONSE)
                  @@ (SegmentedInformationRequestFrame :> AWAITING_RESPONSE)
                  @@ (DisconnectFrame :> AWAITING_DISCONNECT) ))
    @@ (AWAITING_RESPONSE :>
            ( (InformationFrame :> IDLE)
              @@ (SegmentedInformationResponseFrame :>
                      SHOULD_SEND_READY_TO_RECEIVE) ))
    @@ (SHOULD_SEND_READY_TO_RECEIVE :>
            (ReceiveReadyFrame :> AWAITING_RESPONSE))
    @@ (AWAITING_DISCONNECT :> (UnNumberedAcknowledgmentFrame :> CLOSED))

\* Mutant: ReceiveReady ends the segmented exchange in IDLE.
HDLC_STATE_TRANSITIONS_rr_idle ==
    (NOT_CONNECTED :> (SetNormalResponseModeFrame :> AWAITING_CONNECTION))
    @@ (AWAITING_CONNECTION :> (UnNumberedAcknowledgmentFrame :> IDLE))
    @@ (IDLE :> ( (InformationFrame :> AWAITING_RESPONSE)
                  @@ (SegmentedInformationRequestFrame :> AWAITING_RESPONSE)
                  @@ (DisconnectFrame :> AWAITING_DISCONNECT) ))
    @@ (AWAITING_RESPONSE :>
            ( (InformationFrame :> IDLE)
              @@ (SegmentedInformationResponseFrame :>
                      SHOULD_SEND_READY_TO_RECEIVE) ))
    @@ (SHOULD_SEND_READY_TO_RECEIVE :> (ReceiveReadyFrame :> IDLE))
    @@ (AWAITING_DISCONNECT :>
            (UnNumberedAcknowledgmentFrame :> NOT_CONNECTED))

\* Mutant: an Information frame in AWAITING_RESPONSE keeps the phase.
HDLC_STATE_TRANSITIONS_stay ==
    (NOT_CONNECTED :> (SetNormalResponseModeFrame :> AWAITING_CONNECTION))
    @@ (AWAITING_CONNECTION :> (UnNumberedAcknowledgmentFrame :> IDLE))
    @@ (IDLE :> ( (InformationFrame :> AWAITING_RESPONSE)
                  @@ (SegmentedInformationRequestFrame :> AWAITING_RESPONSE)
                  @@ (DisconnectFrame :> AWAITING_DISCONNECT) ))
    @@ (AWAITING_RESPONSE :>
            ( (InformationFrame :> AWAITING_RESPONSE)
              @@ (SegmentedInformationResponseFrame :>
                      SHOULD_SEND_READY_TO_RECEIVE) ))
    @@ (SHOULD_SEND_READY_TO_RECEIVE :>
            (ReceiveReadyFrame :> AWAITING_RESPONSE))
    @@ (AWAITING_DISCONNECT :>
            (UnNumberedAcknowledgmentFrame :> NOT_CONNECTED))

\* Mutant: the entry that acknowledges a disconnect is missing.
HDLC_STATE_TRANSITIONS_no_ack ==
    (NOT_CONNECTED :> (SetNormalResponseModeFrame :> AWAITING_CONNECTION))
    @@ (AWAITING_CONNECTION :> (UnNumberedAcknowledgmentFrame :> IDLE))
    @@ (IDLE :> ( (InformationFrame :> AWAITING_RESPONSE)
                  @@ (SegmentedInformationRequestFrame :> AWAITING_RESPONSE)
                  @@ (DisconnectFrame :> AWAITING_DISCONNECT) ))
    @@ (AWAITING_RESPONSE :>
            ( (InformationFrame :> IDLE)
              @@ (SegmentedInformationResponseFrame :>
                      SHOULD_SEND_READY_TO_RECEIVE) ))
    @@ (SHOULD_SEND_READY_TO_RECEIVE :>
            (ReceiveReadyFrame :> AWAITING_RESPONSE))

HDLC_STATE_TRANSITIONS ==
    (NOT_CONNECTED :> (SetNormalResponseModeFrame :> AWAITING_CONNECTION))
    @@ (AWAITING_CONNECTION :> (UnNumberedAcknowledgmentFrame :> IDLE))
    @@ (IDLE :> ( (InformationFrame :> AWAITING_RESPONSE)
                  @@ (SegmentedInformationRequestFrame :> AWAITING_RESPONSE)
                  @@ (DisconnectFrame :> AWAITING_DISCONNECT) ))
    @@ (AWAITING_RESPONSE :>
            ( (InformationFrame :> IDLE)
              @@ (SegmentedInformationResponseFrame :>
                      SHOULD_SEND_READY_TO_RECEIVE) ))
    @@ (SHOULD_SEND_READY_TO_RECEIVE :>
            (ReceiveReadyFrame :> AWAITING_RESPONSE))
    @@ (AWAITING_DISCONNECT :>
            (UnNumberedAcknowledgmentFrame :> NOT_CONNECTED))

SEND_STATES == { NOT_CONNECTED, IDLE, SHOULD_SEND_READY_TO_RECEIVE }
RECEIVE_STATES == { AWAITING_CONNECTION, AWAITING_RESPONSE, AWAITING_DISCONNECT }

\* ------------------------------------------------------------------------
\* LocalProtocolError, told apart by the message the code builds
\* ------------------------------------------------------------------------
NoError ==
    [ kind |-> "none", field |-> "", observed |-> 0, expected |-> 0,
      frame_type |-> "", state |-> "" ]

\* "Send/Receive Sequence Number {observed} does not correspond with the
\* current state of the HDLC connection {expected}" (state.py 116, 122, 133, 139)
SequenceMismatch(field, observed, expected) ==
    [ kind |-> "SequenceMismatch", field |-> field, observed |-> observed,
      expected |-> expected, frame_type |-> "", state |-> "" ]

\* "can't handle frame type {frame_type} when state={current_state}"
\* (state.py 171-173)
IllegalTransition(frame_type, state) ==
    [ kind |-> "IllegalTransition", field |-> "", observed |-> 0,
      expected |-> 0, frame_type |-> frame_type, state |-> state ]

\* The outcome of a method on the object self: the object as the method
\* leaves it, and the exception that left the method (NoError: it returned).
Return(self) == [ self |-> self, error |-> NoError ]
Raise(self, error) == [ self |-> self, error |-> error ]

\* ------------------------------------------------------------------------
\* HdlcConnectionState (state.py 82-176)
\* ------------------------------------------------------------------------
VARIABLES
    current_state,   \* attribute current_state
    client_ssn,      \* attribute client_ssn
    client_rsn,      \* attribute client_rsn
    server_ssn,      \* attribute server_ssn
    server_rsn,      \* attribute server_rsn
    frame,           \* the argument of the latest process_frame call
    error,           \* the exception that call raised, NoError if it returned
    happy_path,      \* history: calls made so far that follow HappyPath
    claimed_path,    \* history: calls made so far that follow ClaimedPath
    reconnect,       \* history: latest accepted calls that follow Reconnect
    segmented,       \* history: latest accepted calls that follow Segmented
    callers,         \* concurrent callers: each one's position and locals
    overlapped       \* history: two concurrent calls were in progress at once

attrs == << current_state, client_ssn, client_rsn, server_ssn, server_rsn >>
counters == << client_ssn, client_rsn, server_ssn, server_rsn >>
vars == << current_state, client_ssn, client_rsn, server_ssn, server_rsn,
           frame, error, happy_path, claimed_path, reconnect, segmented,
           callers, overlapped >>

\* The object as a record of its attributes.
Self ==
    [ current_state |-> current_state, client_ssn |-> client_ssn,
      client_rsn |-> client_rsn, server_ssn |-> server_ssn,
      server_rsn |-> server_rsn ]

\* Mutant: the body of _increment_server_ssn pasted into _increment_server_rsn.
increment_server_rsn_pasted(self) ==
    LET n == self.server_ssn + 1
    IN  [ self EXCEPT !.server_ssn = IF n > SeqMax THEN 0 ELSE n ]

increment_server_rsn(self) ==
    LET n == self.server_rsn + 1
    IN  [ self EXCEPT !.server_rsn = IF n > SeqMax THEN 0 ELSE n ]

\* Mutant: the sum is not stored back in the attribute.
increment_server_ssn_noop(self) == self

increment_server_ssn(self) ==
    LET n == self.server_ssn + 1
    IN  [ self EXCEPT !.server_ssn = IF n > SeqMax THEN 0 ELSE n ]

\* Mutant: the wrap test fires one early, so the counter skips 7.
increment_client_rsn_early(self) ==
    LET n == self.client_rsn + 1
    IN  [ self EXCEPT !.client_rsn = IF n >= SeqMax THEN 0 ELSE n ]

increment_client_rsn(self) ==
    LET n == self.client_rsn + 1
    IN  [ self EXCEPT !.client_rsn = IF n > SeqMax THEN 0 ELSE n ]

\* Mutant: the wrap test off by one, so the counter reaches 8.
increment_client_ssn_late(self) ==
    LET n == self.client_ssn + 1
    IN  [ self EXCEPT !.client_ssn = IF n > SeqMax + 1 THEN 0 ELSE n ]

increment_client_ssn(self) ==
    LET n == self.client_ssn + 1
    IN  [ self EXCEPT !.client_ssn = IF n > SeqMax THEN 0 ELSE n ]

\* Mutant: the two branches of the response_frame test exchanged.
process_information_frame_swapped(self, f) ==
    IF ~f.response_frame
    THEN IF ~(f.send_sequence_number = self.client_ssn)
         THEN Raise(self, SequenceMismatch("send", f.send_sequence_number,
                                           self.client_ssn))
         ELSE IF ~(f.receive_sequence_number = self.client_rsn)
         THEN Raise(self, SequenceMismatch("receive",
                                           f.receive_sequence_number,
                                           self.client_rsn))
         ELSE Return(increment_client_ssn(increment_server_rsn(self)))
    ELSE IF ~(f.send_sequence_number = self.server_ssn)
         THEN Raise(self, SequenceMismatch("send", f.send_sequence_number,
                                           self.server_ssn))
         ELSE IF ~(f.receive_sequence_number = self.server_rsn)
         THEN Raise(self, SequenceMismatch("receive",
                                           f.receive_sequence_number,
                                           self.server_rsn))
         ELSE Return(increment_client_rsn(increment_server_ssn(self)))

\* Mutant: the first increment made before the receive number is checked.
process_information_frame_eager(self, f) ==
    IF f.response_frame
    THEN IF ~(f.send_sequence_number = self.client_ssn)
         THEN Raise(self, SequenceMismatch("send", f.send_sequence_number,
                                           self.client_ssn))
         ELSE IF ~(f.receive_sequence_number = self.client_rsn)
         THEN Raise(increment_server_rsn(self),
                    SequenceMismatch("receive", f.receive_sequence_number,
                                     self.client_rsn))
         ELSE Return(increment_client_ssn(increment_server_rsn(self)))
    ELSE IF ~(f.send_sequence_number = self.server_ssn)
         THEN Raise(self, SequenceMismatch("send", f.send_sequence_number,
                                           self.server_ssn))
         ELSE IF ~(f.receive_sequence_number = self.server_rsn)
         THEN Raise(increment_server_ssn(self),
                    SequenceMismatch("receive", f.receive_sequence_number,
                                     self.server_rsn))
         ELSE Return(increment_client_rsn(increment_server_ssn(self)))

\* Mutant: the receive sequence number is not checked.
process_information_frame_send_only(self, f) ==
    IF f.response_frame
    THEN IF ~(f.send_sequence_number = self.client_ssn)
         THEN Raise(self, SequenceMismatch("send", f.send_sequence_number,
                                           self.client_ssn))
         ELSE Return(increment_client_ssn(increment_server_rsn(self)))
    ELSE IF ~(f.send_sequence_number = self.server_ssn)
         THEN Raise(self, SequenceMismatch("send", f.send_sequence_number,
                                           self.server_ssn))
         ELSE Return(increment_client_rsn(increment_server_ssn(self)))

process_information_frame(self, f) ==
    IF f.response_frame
    THEN IF ~(f.send_sequence_number = self.client_ssn)
         THEN Raise(self, SequenceMismatch("send", f.send_sequence_number,
                                           self.client_ssn))
         ELSE IF ~(f.receive_sequence_number = self.client_rsn)
         THEN Raise(self, SequenceMismatch("receive",
                                           f.receive_sequence_number,
                                           self.client_rsn))
         ELSE Return(increment_client_ssn(increment_server_rsn(self)))
    ELSE IF ~(f.send_sequence_number = self.server_ssn)
         THEN Raise(self, SequenceMismatch("send", f.send_sequence_number,
                                           self.server_ssn))
         ELSE IF ~(f.receive_sequence_number = self.server_rsn)
         THEN Raise(self, SequenceMismatch("receive",
                                           f.receive_sequence_number,
                                           self.server_rsn))
         ELSE Return(increment_client_rsn(increment_server_ssn(self)))

\* The two subscripts of the lookup: either may raise KeyError.
HasTransition(state, frame_type) ==
    /\ state \in DOMAIN HDLC_STATE_TRANSITIONS
    /\ frame_type \in DOMAIN HDLC_STATE_TRANSITIONS[state]

\* Mutant: a failed lookup latches the connection in CLOSED.
transition_state_latching(self, frame_type) ==
    IF HasTransition(self.current_state, frame_type)
    THEN Return([ self EXCEPT !.current_state =
                     HDLC_STATE_TRANSITIONS[self.current_state][frame_type] ])
    ELSE Raise([ self EXCEPT !.current_state = CLOSED ],
               IllegalTransition(frame_type, self.current_state))

\* Mutant: a failed lookup defaults to staying in the current state.
transition_state_default(self, frame_type) ==
    IF HasTransition(self.current_state, frame_type)
    THEN Return([ self EXCEPT !.current_state =
                     HDLC_STATE_TRANSITIONS[self.current_state][frame_type] ])
    ELSE Return(self)

\* Mutant: arriving in NOT_CONNECTED resets the four counters.
transition_state_reset(self, frame_type) ==
    IF HasTransition(self.current_state, frame_type)
    THEN LET new_state ==
                 HDLC_STATE_TRANSITIONS[self.current_state][frame_type]
         IN  IF new_state = NOT_CONNECTED
             THEN Return([ current_state |-> new_state, client_ssn |-> 0,
                           client_rsn |-> 0, server_ssn |-> 0,
                           server_rsn |-> 0 ])
             ELSE Return([ self EXCEPT !.current_state = new_state ])
    ELSE Raise(self, IllegalTransition(frame_type, self.current_state))

transition_state(self, frame_type) ==
    IF HasTransition(self.current_state, frame_type)
    THEN Return([ self EXCEPT !.current_state =
                     HDLC_STATE_TRANSITIONS[self.current_state][frame_type] ])
    ELSE Raise(self, IllegalTransition(frame_type, self.current_state))

\* Mutant: a failed lookup rolls the counters back.
process_frame_rollback(self, f) ==
    LET validated ==
            IF f.type = InformationFrame
            THEN process_information_frame(self, f)
            ELSE Return(self)
    IN  IF validated.error # NoError
        THEN validated
        ELSE IF HasTransition(self.current_state, f.type)
        THEN transition_state(validated.self, f.type)
        ELSE Raise(self, IllegalTransition(f.type, self.current_state))

\* Mutant: the table is consulted before the sequence numbers are validated.
process_frame_lookup_first(self, f) ==
    IF ~HasTransition(self.current_state, f.type)
    THEN Raise(self, IllegalTransition(f.type, self.current_state))
    ELSE LET validated ==
                 IF f.type = InformationFrame
                 THEN process_information_frame(self, f)
                 ELSE Return(self)
         IN  IF validated.error # NoError
             THEN validated
             ELSE transition_state(validated.self, f.type)

\* Mutant: a response is taken only while one is awaited, a request only
\* in IDLE.
process_frame_directional(self, f) ==
    LET validated ==
            IF f.type = InformationFrame
            THEN process_information_frame(self, f)
            ELSE Return(self)
    IN  IF validated.error # NoError
        THEN validated
        ELSE IF f.type = InformationFrame
                /\ f.response_frame = (self.current_state = IDLE)
        THEN Raise(validated.self,
                   IllegalTransition(f.type, self.current_state))
        ELSE transition_state(validated.self, f.type)

process_frame(self, f) ==
    LET validated ==
            IF f.type = InformationFrame
            THEN process_information_frame(self, f)
            ELSE Return(self)
    IN  IF validated.error # NoError
        THEN validated
        ELSE transition_state(validated.self, f.type)

\* ------------------------------------------------------------------------
\* Call sequences the history variables follow
\* ------------------------------------------------------------------------
\* Connect, then one request and the response the code accepts after it.
HappyPath ==
    << ControlFrame(SetNormalResponseModeFrame),
       ControlFrame(UnNumberedAcknowledgmentFrame),
       Information(FALSE, 0, 0),
       Information(TRUE, 0, 1) >>

\* The same with the response numbered send=0, recv=0.
ClaimedPath ==
    << ControlFrame(SetNormalResponseModeFrame),
       ControlFrame(UnNumberedAcknowledgmentFrame),
       Information(FALSE, 0, 0),
       Information(TRUE, 0, 0) >>

\* The phases a round trip goes through, call by call.
HappyPhases == << AWAITING_CONNECTION, IDLE, AWAITING_RESPONSE, IDLE >>

\* Disconnect and connect again on the same instance.
Reconnect ==
    << DisconnectFrame, UnNumberedAcknowledgmentFrame,
       SetNormalResponseModeFrame, UnNumberedAcknowledgmentFrame >>

\* Position in `path` once the next call passes f: -1 once the calls made
\* since construction have left the path.
Follow(pos, path, f) ==
    IF pos >= 0 /\ pos < Len(path) /\ path[pos + 1] = f THEN pos + 1 ELSE -1

\* Position in Reconnect after an accepted (or rejected) call: an accepted
\* DisconnectFrame starts it, each next accepted frame of it advances it.
FollowReconnect(pos, f, accepted) ==
    IF accepted /\ f.type = Reconnect[1] THEN 1
    ELSE IF accepted /\ pos >= 1 /\ pos < Len(Reconnect)
            /\ f.type = Reconnect[pos + 1] THEN pos + 1
    ELSE 0

\* A request answered in segments: the sub-cycle SegmentedInformationResponse,
\* ReceiveReady made twice.
Segmented ==
    << InformationFrame, SegmentedInformationResponseFrame, ReceiveReadyFrame,
       SegmentedInformationResponseFrame, ReceiveReadyFrame >>

\* Position in Segmented after a call: an accepted frame that continues it
\* advances it, an accepted InformationFrame starts it, anything else ends it.
FollowSegmented(pos, f, accepted) ==
    IF accepted /\ pos >= 1 /\ pos < Len(Segmented)
       /\ f.type = Segmented[pos + 1] THEN pos + 1
    ELSE IF accepted /\ f.type = Segmented[1] THEN 1
    ELSE 0

\* ------------------------------------------------------------------------
\* The state machine
\* ------------------------------------------------------------------------
\* The attr.ib defaults of the four counters; no call made yet.
InitRest ==
    /\ client_ssn = 0
    /\ client_rsn = 0
    /\ server_ssn = 0
    /\ server_rsn = 0
    /\ frame = NoFrame
    /\ error = NoError
    /\ reconnect = 0
    /\ segmented = 0
    /\ callers = << >>
    /\ overlapped = FALSE

\* HdlcConnectionState(): every attr.ib default.
Init ==
    /\ current_state = NOT_CONNECTED
    /\ happy_path = 0
    /\ claimed_path = 0
    /\ InitRest

\* HdlcConnectionState(current_state=s) for any sentinel s.
InitAny ==
    /\ current_state \in Sentinels
    /\ happy_path = -1
    /\ claimed_path = -1
    /\ InitRest

\* One call self.process_frame(f), exception included.
ProcessFrame(f) ==
    LET out == process_frame(Self, f)
    IN  /\ current_state' = out.self.current_state
        /\ client_ssn' = out.self.client_ssn
        /\ client_rsn' = out.self.client_rsn
        /\ server_ssn' = out.self.server_ssn
        /\ server_rsn' = out.self.server_rsn
        /\ frame' = f
        /\ error' = out.error
        /\ happy_path' = Follow(happy_path, HappyPath, f)
        /\ claimed_path' = Follow(claimed_path, ClaimedPath, f)
        /\ reconnect' = FollowReconnect(reconnect, f, out.error = NoError)
        /\ segmented' = FollowSegmented(segmented, f, out.error = NoError)
        /\ UNCHANGED << callers, overlapped >>

Next == \E f \in Frames : ProcessFrame(f)

\* Every run from default construction.
Spec == Init /\ [][Next]_vars

\* Every run from an instance constructed in any of the eight states.
SpecAny == InitAny /\ [][Next]_vars

\* ------------------------------------------------------------------------
\* Two callers of process_frame on one instance, without a lock.  A step is
\* one read or one write of an attribute, the grain at which the interpreter
\* may switch threads; each caller makes one call.
\* ------------------------------------------------------------------------
Threads == { "a", "b" }

\* The sequence numbers the concurrent calls and their instance start from:
\* the first counter value and the last before the wrap.
ConcurrentSeqs == { 0, SeqMax }

ConcurrentFrames ==
    { f \in Frames :
        /\ f.send_sequence_number \in ConcurrentSeqs
        /\ f.receive_sequence_number \in ConcurrentSeqs }

\* A caller that has not called yet.
Ready ==
    [ pc |-> "ready", frame |-> NoFrame, k |-> 1, tmp |-> 0,
      new_state |-> NOT_CONNECTED, error |-> NoError ]

InCall(t) == callers[t].pc \notin { "ready", "done" }

\* The counter compared with the frame's send / receive number
\* (state.py 115, 121, 132, 138).
CheckedCounter(f, pc) ==
    IF f.response_frame
    THEN IF pc = "check_send" THEN "client_ssn" ELSE "client_rsn"
    ELSE IF pc = "check_send" THEN "server_ssn" ELSE "server_rsn"

\* The k-th counter incremented for the frame (state.py 128-129, 144-145).
IncrementedCounter(f, k) ==
    IF f.response_frame
    THEN IF k = 1 THEN "server_rsn" ELSE "client_ssn"
    ELSE IF k = 1 THEN "server_ssn" ELSE "client_rsn"

\* self.<name>
Attr(name) ==
    CASE name = "client_ssn" -> client_ssn
      [] name = "client_rsn" -> client_rsn
      [] name = "server_ssn" -> server_ssn
      [] name = "server_rsn" -> server_rsn

\* self.<name> = v
SetAttr(name, v) ==
    /\ client_ssn' = IF name = "client_ssn" THEN v ELSE client_ssn
    /\ client_rsn' = IF name = "client_rsn" THEN v ELSE client_rsn
    /\ server_ssn' = IF name = "server_ssn" THEN v ELSE server_ssn
    /\ server_rsn' = IF name = "server_rsn" THEN v ELSE server_rsn

\* Mutant: the increment is lost.
PlusOne_lost(n) == n

\* The right-hand side of "+= 1" (state.py 148, 153, 158, 163).
PlusOne(n) == n + 1

\* Caller t moves to pc, with its locals changed as in `changes`.
Move(t, next) ==
    /\ callers' = [ callers EXCEPT ![t] = next ]
    /\ overlapped' = (overlapped \/ \E u \in Threads \ {t} : InCall(u))
    /\ UNCHANGED << frame, error, happy_path, claimed_path, reconnect,
                    segmented >>

\* process_frame(frame) is entered: the type test of line 102.
Call(t, f) ==
    /\ callers[t].pc = "ready"
    /\ Move(t, [ callers[t] EXCEPT
                   !.frame = f,
                   !.pc = IF f.type = InformationFrame
                          THEN "check_send" ELSE "lookup" ])
    /\ UNCHANGED attrs

\* Lines 115-119 / 132-136: the send number against the counter.
CheckSend(t) ==
    LET c == callers[t]
        expected == Attr(CheckedCounter(c.frame, "check_send"))
    IN  /\ c.pc = "check_send"
        /\ Move(t, IF c.frame.send_sequence_number = expected
                   THEN [ c EXCEPT !.pc = "check_receive" ]
                   ELSE [ c EXCEPT !.pc = "done",
                            !.error = SequenceMismatch("send",
                                 c.frame.send_sequence_number, expected) ])
        /\ UNCHANGED attrs

\* Lines 121-126 / 138-143: the receive number against the counter.
CheckReceive(t) ==
    LET c == callers[t]
        expected == Attr(CheckedCounter(c.frame, "check_receive"))
    IN  /\ c.pc = "check_receive"
        /\ Move(t, IF c.frame.receive_sequence_number = expected
                   THEN [ c EXCEPT !.pc = "load", !.k = 1 ]
                   ELSE [ c EXCEPT !.pc = "done",
                            !.error = SequenceMismatch("receive",
                                 c.frame.receive_sequence_number, expected) ])
        /\ UNCHANGED attrs

\* "self.x += 1", first half: the attribute is read.
Load(t) ==
    LET c == callers[t]
    IN  /\ c.pc = "load"
        /\ Move(t, [ c EXCEPT !.pc = "store",
                       !.tmp = Attr(IncrementedCounter(c.frame, c.k)) ])
        /\ UNCHANGED attrs

\* "self.x += 1", second half: the sum is written.
Store(t) ==
    LET c == callers[t]
    IN  /\ c.pc = "store"
        /\ SetAttr(IncrementedCounter(c.frame, c.k), PlusOne(c.tmp))
        /\ Move(t, [ c EXCEPT !.pc = "test", !.tmp = 0 ])
        /\ UNCHANGED current_state

\* "if self.x > 7:"
Test(t) ==
    LET c == callers[t]
    IN  /\ c.pc = "test"
        /\ Move(t, [ c EXCEPT !.pc =
                       IF Attr(IncrementedCounter(c.frame, c.k)) > SeqMax
                       THEN "reset"
                       ELSE IF c.k = 1 THEN "load" ELSE "lookup",
                       !.k = IF Attr(IncrementedCounter(c.frame, c.k)) > SeqMax
                             THEN c.k ELSE 2 ])
        /\ UNCHANGED attrs

\* "self.x = 0"
Reset(t) ==
    LET c == callers[t]
    IN  /\ c.pc = "reset"
        /\ SetAttr(IncrementedCounter(c.frame, c.k), 0)
        /\ Move(t, [ c EXCEPT !.pc = IF c.k = 1 THEN "load" ELSE "lookup",
                       !.k = 2 ])
        /\ UNCHANGED current_state

\* Lines 168-173: the lookup with the current state, or the KeyError.
Lookup(t) ==
    LET c == callers[t]
    IN  /\ c.pc = "lookup"
        /\ Move(t, IF HasTransition(current_state, c.frame.type)
                   THEN [ c EXCEPT !.pc = "commit",
                            !.new_state =
                               HDLC_STATE_TRANSITIONS[current_state][c.frame.type] ]
                   ELSE [ c EXCEPT !.pc = "done",
                            !.error = IllegalTransition(c.frame.type,
                                                        current_state) ])
        /\ UNCHANGED attrs

\* Line 175: self.current_state = new_state, and the call returns.
Commit(t) ==
    LET c == callers[t]
    IN  /\ c.pc = "commit"
        /\ current_state' = c.new_state
        /\ Move(t, [ c EXCEPT !.pc = "done" ])
        /\ UNCHANGED counters

\* An instance as calls made one after the other leave it, shared by two
\* callers that have not called yet.
InitConcurrent ==
    /\ current_state \in Sentinels \ { CLOSED, NEED_DATA }
    /\ client_ssn \in ConcurrentSeqs
    /\ server_rsn = client_ssn
    /\ server_ssn \in ConcurrentSeqs
    /\ client_rsn = server_ssn
    /\ frame = NoFrame
    /\ error = NoError
    /\ happy_path = -1
    /\ claimed_path = -1
    /\ reconnect = 0
    /\ segmented = 0
    /\ callers = [ t \in Threads |-> Ready ]
    /\ overlapped = FALSE

NextConcurrent ==
    \E t \in Threads :
        \/ \E f \in ConcurrentFrames : Call(t, f)
        \/ CheckSend(t)
        \/ CheckReceive(t)
        \/ Load(t)
        \/ Store(t)
        \/ Test(t)
        \/ Reset(t)
        \/ Lookup(t)
        \/ Commit(t)

\* Every interleaving of two calls on one instance.
SpecConcurrent == InitConcurrent /\ [][NextConcurrent]_vars

\* ------------------------------------------------------------------------
\* Vocabulary of the properties
\* ------------------------------------------------------------------------
\* The nine transitions of the specification's table (spec 4.1), written
\* out independently of HDLC_STATE_TRANSITIONS.
NineEntries ==
    { << NOT_CONNECTED, SetNormalResponseModeFrame, AWAITING_CONNECTION >>,
      << AWAITING_CONNECTION, UnNumberedAcknowledgmentFrame, IDLE >>,
      << IDLE, InformationFrame, AWAITING_RESPONSE >>,
      << IDLE, SegmentedInformationRequestFrame, AWAITING_RESPONSE >>,
      << IDLE, DisconnectFrame, AWAITING_DISCONNECT >>,
      << AWAITING_RESPONSE, InformationFrame, IDLE >>,
      << AWAITING_RESPONSE, SegmentedInformationResponseFrame,
         SHOULD_SEND_READY_TO_RECEIVE >>,
      << SHOULD_SEND_READY_TO_RECEIVE, ReceiveReadyFrame, AWAITING_RESPONSE >>,
      << AWAITING_DISCONNECT, UnNumberedAcknowledgmentFrame, NOT_CONNECTED >> }

Tabled(state, frame_type) ==
    \E e \in NineEntries : e[1] = state /\ e[2] = frame_type

TableNext(state, frame_type) ==
    (CHOOSE e \in NineEntries : e[1] = state /\ e[2] = frame_type)[3]

\* The entries of the table the code holds.
CodeEntries ==
    UNION { { << s, t, HDLC_STATE_TRANSITIONS[s][t] >> :
                t \in DOMAIN HDLC_STATE_TRANSITIONS[s] } :
            s \in DOMAIN HDLC_STATE_TRANSITIONS }

\* The counter pair an Information frame is compared with, before the call.
ExpectedSend(f) == IF f.response_frame THEN client_ssn ELSE server_ssn
ExpectedReceive(f) == IF f.response_frame THEN client_rsn ELSE server_rsn

Matches(f) ==
    /\ f.send_sequence_number = ExpectedSend(f)
    /\ f.receive_sequence_number = ExpectedReceive(f)

Inc(n) == (n + 1) % 8

\* Across the call, the pair of f's direction advanced and the other kept.
Advanced(f) ==
    IF f.response_frame
    THEN /\ server_rsn' = Inc(server_rsn)
         /\ client_ssn' = Inc(client_ssn)
         /\ UNCHANGED << client_rsn, server_ssn >>
    ELSE /\ server_ssn' = Inc(server_ssn)
         /\ client_rsn' = Inc(client_rsn)
         /\ UNCHANGED << client_ssn, server_rsn >>

\* A rejection made before any counter was incremented: a failed sequence
\* validation, or a failed lookup for a frame that is not an InformationFrame.
CleanReject(e, f) ==
    \/ e.kind = "SequenceMismatch"
    \/ e.kind = "IllegalTransition" /\ f.type # InformationFrame

\* ------------------------------------------------------------------------
\* C1
\* ------------------------------------------------------------------------
\* C1 as claimed: every rejected call leaves the phase and the four counters
\* as they were before the call.
C1_Claimed == [][ error' # NoError => UNCHANGED attrs ]_vars

\* C1 amended: every rejected call leaves the phase as it was; it leaves the
\* four counters as they were too, unless the frame is an Information frame
\* rejected for an illegal transition (its numbers validated), and then the
\* counter pair of its direction has advanced by one modulo 8.
C1_Rejection ==
    [][ error' # NoError =>
          /\ current_state' = current_state
          /\ IF frame'.type = InformationFrame
                /\ error'.kind = "IllegalTransition"
             THEN Advanced(frame')
             ELSE UNCHANGED counters ]_vars

\* A Disconnect rejected while a response is awaited, counters advanced
\* earlier and kept.
C1_Witness ==
    /\ error.kind = "IllegalTransition"
    /\ frame.type = DisconnectFrame
    /\ current_state = AWAITING_RESPONSE
    /\ client_ssn = 3
    /\ server_ssn = 2

C3_Claimed ==
    [][ ~Tabled(current_state, frame'.type) =>
          /\ error'.kind = "IllegalTransition"
          /\ current_state' = current_state ]_vars

\* C3 amended: a frame whose (phase, kind) is none of the nine entries is
\* rejected and the phase is unchanged; the error is IllegalTransition,
\* except for an Information frame whose sequence numbers do not match the
\* expected pair, which is rejected with SequenceMismatch.
C3_Untabled ==
    [][ ~Tabled(current_state, frame'.type) =>
          /\ current_state' = current_state
          /\ error'.kind =
                IF frame'.type = InformationFrame /\ ~Matches(frame')
                THEN "SequenceMismatch"
                ELSE "IllegalTransition" ]_vars

\* A frame was presented to an instance in CLOSED.
C3_Witness ==
    /\ current_state = CLOSED
    /\ frame.type = SetNormalResponseModeFrame
    /\ error = IllegalTransition(SetNormalResponseModeFrame, CLOSED)

\* ------------------------------------------------------------------------
\* C4
\* ------------------------------------------------------------------------
\* C4 as claimed: a rejected call leaves the state as it was, and the same
\* frame passed again at once is rejected with the same error.
C4_Claimed ==
    [][ /\ (error # NoError /\ frame' = frame) => error' = error
        /\ error' # NoError => UNCHANGED attrs ]_vars

\* C4 amended: a call rejected with SequenceMismatch, or with
\* IllegalTransition for a frame that is not an Information frame, leaves
\* the state as it was, and the same frame passed again at once is rejected
\* with the same error (kind, expected and observed values).
C4_Idempotent ==
    [][ /\ (CleanReject(error, frame) /\ frame' = frame) =>
              error' = error /\ UNCHANGED attrs
        /\ CleanReject(error', frame') => UNCHANGED attrs ]_vars

\* After a call rejected for its receive number, the same frame is rejected
\* again in the same way.
C4_Witness ==
    /\ error.kind = "SequenceMismatch"
    /\ error.field = "receive"
    /\ current_state = IDLE
    /\ process_frame(Self, frame) = Raise(Self, error)

C6_CounterRange ==
    /\ client_ssn \in 0..7
    /\ client_rsn \in 0..7
    /\ server_ssn \in 0..7
    /\ server_rsn \in 0..7

\* A response numbered send=7 was accepted and client_ssn wrapped to 0.
C6_Witness ==
    /\ frame.type = InformationFrame
    /\ frame.response_frame
    /\ frame.send_sequence_number = 7
    /\ error = NoError
    /\ client_ssn = 0

\* ------------------------------------------------------------------------
\* C7
\* ------------------------------------------------------------------------
\* C7: the table holds exactly the nine entries; an accepted call moves the
\* phase to the entry for (old phase, frame kind), and a rejected call
\* leaves the phase as it was.
C7_TransitionFunction ==
    [][ /\ CodeEntries = NineEntries
        /\ IF error' = NoError
           THEN /\ Tabled(current_state, frame'.type)
                /\ current_state' = TableNext(current_state, frame'.type)
           ELSE current_state' = current_state ]_vars

\* A segmented response was accepted.
C7_Witness ==
    /\ current_state = SHOULD_SEND_READY_TO_RECEIVE
    /\ frame.type = SegmentedInformationResponseFrame
    /\ error = NoError

C9_ReservedUnreachable ==
    current_state \in
        { NOT_CONNECTED, AWAITING_CONNECTION, IDLE, AWAITING_RESPONSE,
          SHOULD_SEND_READY_TO_RECEIVE, AWAITING_DISCONNECT }

\* The disconnect was acknowledged: the cycle closed in NOT_CONNECTED.
C9_Witness ==
    /\ current_state = NOT_CONNECTED
    /\ frame.type = UnNumberedAcknowledgmentFrame
    /\ error = NoError

\* ------------------------------------------------------------------------
\* C10
\* ------------------------------------------------------------------------
\* C10: a call with a frame of any kind other than Information, accepted or
\* rejected, leaves the four counters as they were; so do the four calls of
\* a disconnect followed by a reconnect.
C10_OnlyInformation ==
    [][ frame'.type # InformationFrame => UNCHANGED counters ]_vars

\* Disconnected and connected again, all four counters still advanced.
C10_Witness ==
    /\ reconnect = 4
    /\ current_state = IDLE
    /\ counters = << 3, 2, 2, 3 >>

\* ------------------------------------------------------------------------
\* C11
\* ------------------------------------------------------------------------
\* C11: an Information frame whose numbers validate in a phase other than
\* IDLE and AWAITING_RESPONSE is rejected with IllegalTransition, the phase
\* is unchanged, and the counter pair of its direction has advanced by one
\* modulo 8 (no rollback).
C11_ValidateThenTransition ==
    [][ ( /\ frame'.type = InformationFrame
          /\ Matches(frame')
          /\ current_state \notin { IDLE, AWAITING_RESPONSE } ) =>
          /\ error' = IllegalTransition(InformationFrame, current_state)
          /\ current_state' = current_state
          /\ Advanced(frame') ]_vars

\* In CLOSED a validated response numbered send=7 was rejected and the pair
\* (server_rsn, client_ssn) wrapped to 0.
C11_Witness ==
    /\ current_state = CLOSED
    /\ frame.type = InformationFrame
    /\ frame.response_frame
    /\ frame.send_sequence_number = 7
    /\ error.kind = "IllegalTransition"
    /\ client_ssn = 0
    /\ server_rsn = 0

\* ------------------------------------------------------------------------
\* C12
\* ------------------------------------------------------------------------
\* C12: across any call each counter keeps its value or becomes
\* (value + 1) mod 8; a counter at 7 that changes becomes 0.
C12_IncrementWithWrap ==
    [][ /\ client_ssn' \in { client_ssn, Inc(client_ssn) }
        /\ client_rsn' \in { client_rsn, Inc(client_rsn) }
        /\ server_ssn' \in { server_ssn, Inc(server_ssn) }
        /\ server_rsn' \in { server_rsn, Inc(server_rsn) }
        /\ \A c \in { << client_ssn, client_ssn' >>,
                      << client_rsn, client_rsn' >>,
                      << server_ssn, server_ssn' >>,
                      << server_rsn, server_rsn' >> } :
              (c[1] = 7 /\ c[2] # 7) => c[2] = 0 ]_vars

\* A validated frame rejected in NOT_CONNECTED took server_rsn from 7 to 0.
C12_Witness ==
    /\ current_state = NOT_CONNECTED
    /\ error.kind = "IllegalTransition"
    /\ frame.type = InformationFrame
    /\ frame.response_frame
    /\ frame.send_sequence_number = 7
    /\ server_rsn = 0

\* ------------------------------------------------------------------------
\* C13
\* ------------------------------------------------------------------------
\* C13: in IDLE an Information request whose numbers match is accepted and
\* moves to AWAITING_RESPONSE; there SegmentedInformationResponse is accepted
\* and moves to SHOULD_SEND_READY_TO_RECEIVE; there ReceiveReady is accepted
\* and moves back to AWAITING_RESPONSE; the two segmented steps are accepted
\* whatever the counters are and leave them as they were, so the sub-cycle
\* can be made again from where it ends.
C13_SegmentedCycle ==
    [][ /\ ( /\ current_state = IDLE
             /\ frame'.type = InformationFrame
             /\ ~frame'.response_frame
             /\ Matches(frame') ) =>
               error' = NoError /\ current_state' = AWAITING_RESPONSE
        /\ ( /\ current_state = AWAITING_RESPONSE
             /\ frame'.type = SegmentedInformationResponseFrame ) =>
               /\ error' = NoError
               /\ current_state' = SHOULD_SEND_READY_TO_RECEIVE
               /\ UNCHANGED counters
        /\ ( /\ current_state = SHOULD_SEND_READY_TO_RECEIVE
             /\ frame'.type = ReceiveReadyFrame ) =>
               /\ error' = NoError
               /\ current_state' = AWAITING_RESPONSE
               /\ UNCHANGED counters ]_vars

\* The sub-cycle made twice after a request, with counters that wrapped.
C13_Witness ==
    /\ segmented = 5
    /\ current_state = AWAITING_RESPONSE
    /\ frame.type = ReceiveReadyFrame
    /\ counters = << 6, 0, 0, 6 >>

\* ------------------------------------------------------------------------
\* C14
\* ------------------------------------------------------------------------
\* C14: SequenceMismatch is raised only for Information frames; an
\* Information frame whose numbers do not match is rejected with
\* SequenceMismatch in every phase; an Information frame is rejected with
\* IllegalTransition only once its numbers have validated (and its counter
\* pair has advanced).
C14_ErrorKind ==
    [][ /\ error'.kind = "SequenceMismatch" => frame'.type = InformationFrame
        /\ (frame'.type = InformationFrame /\ ~Matches(frame')) =>
              error'.kind = "SequenceMismatch"
        /\ (frame'.type = InformationFrame
            /\ error'.kind = "IllegalTransition") =>
              Matches(frame') /\ Advanced(frame') ]_vars

\* A mismatching Information frame presented in NEED_DATA.
C14_Witness ==
    /\ current_state = NEED_DATA
    /\ frame.type = InformationFrame
    /\ error.kind = "SequenceMismatch"
    /\ client_ssn = 2

\* ------------------------------------------------------------------------
\* C15
\* ------------------------------------------------------------------------
\* Both callers passed the same Information frame and both calls returned.
DuplicateAccepted ==
    /\ \A t \in Threads :
          callers[t].pc = "done" /\ callers[t].error = NoError
    /\ \E f \in ConcurrentFrames :
          f.type = InformationFrame /\ \A t \in Threads : callers[t].frame = f

\* A caller is about to read, for a comparison or an increment, a counter
\* that holds a value outside 0..7.
ObservedOutOfRange ==
    \E t \in Threads :
        \/ /\ callers[t].pc \in { "check_send", "check_receive" }
           /\ Attr(CheckedCounter(callers[t].frame, callers[t].pc)) \notin 0..7
        \/ /\ callers[t].pc = "load"
           /\ Attr(IncrementedCounter(callers[t].frame, callers[t].k))
                 \notin 0..7

\* C15: as long as the two calls are made one after the other, no duplicate
\* Information frame is accepted twice and no caller reads a counter outside
\* 0..7; both are reachable only once the calls have overlapped.
C15_SerializedSafe ==
    ~overlapped => ~DuplicateAccepted /\ ~ObservedOutOfRange

\* Two overlapping calls both accepted the same Information frame.
C15_Witness == overlapped /\ DuplicateAccepted

\* ------------------------------------------------------------------------
\* C16
\* ------------------------------------------------------------------------
\* C16: from default construction client_ssn = server_rsn and
\* server_ssn = client_rsn in every reachable state.
C16_CrossCounter ==
    /\ client_ssn = server_rsn
    /\ server_ssn = client_rsn

\* Both pairs advanced, by different amounts, and a request just accepted.
C16_Witness ==
    /\ counters = << 5, 3, 3, 5 >>
    /\ frame = Information(FALSE, 2, 5)
    /\ error = NoError

\* ------------------------------------------------------------------------
\* C17
\* ------------------------------------------------------------------------
\* C17: an accepted frame moves the phase from SEND_STATES to RECEIVE_STATES
\* or from RECEIVE_STATES to SEND_STATES; a rejected frame leaves the phase,
\* so the successive phases of a run alternate between the two sets.
C17_HalfDuplex ==
    [][ IF error' = NoError
        THEN \/ current_state \in SEND_STATES
                /\ current_state' \in RECEIVE_STATES
             \/ current_state \in RECEIVE_STATES
                /\ current_state' \in SEND_STATES
        ELSE current_state' = current_state ]_vars

\* A disconnect was sent from IDLE: a send state left for a receive state.
C17_Witness ==
    /\ current_state = AWAITING_DISCONNECT
    /\ frame.type = DisconnectFrame
    /\ error = NoError
    /\ client_ssn = 1

\* ------------------------------------------------------------------------
\* C18
\* ------------------------------------------------------------------------
\* The most accepted calls looked at for a way back to NOT_CONNECTED.
MaxHops == 4

\* Frames tried on the way back: the control frames and the two Information
\* frames numbered as the instance expects.
ExitFrames(self) ==
    { ControlFrame(ft) : ft \in FrameTypes \ { InformationFrame } }
    \cup { Information(TRUE, self.client_ssn, self.client_rsn),
           Information(FALSE, self.server_ssn, self.server_rsn) }

\* Some sequence of at most n accepted frames takes self to NOT_CONNECTED.
RECURSIVE ReturnsWithin(_, _)
ReturnsWithin(self, n) ==
    \/ self.current_state = NOT_CONNECTED
    \/ /\ n > 0
       /\ \E f \in ExitFrames(self) :
             LET out == process_frame(self, f)
             IN  out.error = NoError /\ ReturnsWithin(out.self, n - 1)

\* C18: in every reachable state, after rejected calls too, some frame is
\* accepted, and some sequence of accepted frames leads back to
\* NOT_CONNECTED.
C18_NoStuckState ==
    /\ ExitFrames(Self) \subseteq Frames
    /\ \E f \in ExitFrames(Self) : process_frame(Self, f).error = NoError
    /\ ReturnsWithin(Self, MaxHops)

\* After a rejected call in the phase farthest from NOT_CONNECTED.
C18_Witness ==
    /\ current_state = SHOULD_SEND_READY_TO_RECEIVE
    /\ error.kind = "SequenceMismatch"
    /\ client_ssn = 7
    /\ ~ReturnsWithin(Self, MaxHops - 1)

\* ------------------------------------------------------------------------
\* C19
\* ------------------------------------------------------------------------
\* C19: an Information frame is accepted exactly when its numbers match the
\* pair selected by response_frame and the phase is IDLE or
\* AWAITING_RESPONSE; the next phase is AWAITING_RESPONSE from IDLE and IDLE
\* from AWAITING_RESPONSE, whatever response_frame is.
C19_DirectionIndependent ==
    [][ frame'.type = InformationFrame =>
          /\ error' = NoError <=>
                /\ Matches(frame')
                /\ current_state \in { IDLE, AWAITING_RESPONSE }
          /\ error' = NoError =>
                current_state' =
                    IF current_state = IDLE THEN AWAITING_RESPONSE ELSE IDLE
       ]_vars

\* A response was accepted in IDLE.
C19_Witness ==
    /\ current_state = AWAITING_RESPONSE
    /\ frame = Information(TRUE, 4, 1)
    /\ error = NoError

====
